---- MODULE Spec2Model ----
(***************************************************************************)
(* COVID-19 ICU risk analysis: load_data, preprocess_data and              *)
(* aggregate_patient_level of src/src/analysis.py.                         *)
(*                                                                         *)
(* A table (pandas DataFrame) is [cols, rows]: cols is the ordered list of *)
(* column labels, rows the ordered list of rows, each a function from the  *)
(* column labels to cells.  A cell is a tagged value: text, a number       *)
(* (mantissa m with e fraction digits, i.e. m / 10^e, kept normalised so   *)
(* that 1 and 1.0 are the same value, as in Python) or NaN (missing).      *)
(* Tables live in a heap of objects addressed by reference, so that        *)
(* copying and in-place modification are distinguishable.                  *)
(***************************************************************************)
EXTENDS Integers, Sequences, FiniteSets, TLC

VARIABLES pc, attempts, warnings_disabled, heap, df, exc, calls, arg, snap,
          patient_df

vars == <<pc, attempts, warnings_disabled, heap, df, exc, calls, arg, snap,
          patient_df>>

(* Bounds of the model *)
MaxRows == 2
MaxCalls == 2
MaxPatientRows == 3

-----------------------------------------------------------------------------
(* Cells *)

Str(s) == [t |-> "str", s |-> s, m |-> 0, e |-> 0]

NaN == [t |-> "nan", s |-> "", m |-> 0, e |-> 0]

RECURSIVE Normalise(_, _)
Normalise(m, e) ==
    IF e > 0 /\ m % 10 = 0 THEN Normalise(m \div 10, e - 1)
    ELSE [t |-> "num", s |-> "", m |-> m, e |-> e]

Num(m, e) == Normalise(m, e)

IsNull(v) == v.t = "nan"

RECURSIVE Pow10(_)
Pow10(k) == IF k = 0 THEN 1 ELSE 10 * Pow10(k - 1)

(* a < b for two numbers *)
NumLess(a, b) == a.m * Pow10(b.e) < b.m * Pow10(a.e)

Range(f) == {f[i] : i \in DOMAIN f}

-----------------------------------------------------------------------------
(* Text *)

Digits == {"0", "1", "2", "3", "4", "5", "6", "7", "8", "9"}

DigitVal(c) ==
    CASE c = "0" -> 0 [] c = "1" -> 1 [] c = "2" -> 2 [] c = "3" -> 3
      [] c = "4" -> 4 [] c = "5" -> 5 [] c = "6" -> 6 [] c = "7" -> 7
      [] c = "8" -> 8 [] c = "9" -> 9

CharAt(s, i) == SubSeq(s, i, i)

(* str.endswith(suffix) *)
EndsWith(s, suffix) ==
    /\ Len(s) >= Len(suffix)
    /\ SubSeq(s, Len(s) - Len(suffix) + 1, Len(s)) = suffix

(* mutant: the _MEDIAN suffix is left out *)
remove_patterns_no_median == {"_DIFF", "_MIN", "_MAX"}

remove_patterns == {"_DIFF", "_MIN", "_MAX", "_MEDIAN"}

(* col.endswith(remove_patterns) with a tuple of suffixes *)
EndsWithAny(s) == \E p \in remove_patterns : EndsWith(s, p)

(* str(x) of a cell: text is itself, a missing value prints as "nan" *)
StrOf(v) == IF v.t = "str" THEN v.s ELSE "nan"

(* re.sub(r"[^\d.]", "", s): keep digits and decimal points, in order *)
RECURSIVE StripFrom(_, _)
StripFrom(s, i) ==
    IF i > Len(s) THEN ""
    ELSE IF CharAt(s, i) \in Digits \cup {"."}
         THEN CharAt(s, i) \o StripFrom(s, i + 1)
         ELSE StripFrom(s, i + 1)

(* mutant: the pattern [^\d] also deletes the decimal points *)
RECURSIVE StripDigitsOnly(_)
StripDigitsOnly(s) ==
    IF s = "" THEN ""
    ELSE IF CharAt(s, 1) \in Digits
         THEN CharAt(s, 1) \o StripDigitsOnly(SubSeq(s, 2, Len(s)))
         ELSE StripDigitsOnly(SubSeq(s, 2, Len(s)))

StripNonNumeric(s) == StripFrom(s, 1)

RECURSIVE CountChar(_, _, _)
CountChar(s, c, i) ==
    IF i > Len(s) THEN 0
    ELSE (IF CharAt(s, i) = c THEN 1 ELSE 0) + CountChar(s, c, i + 1)

(* mutant: a text without digits is read as zero instead of raising *)
FloatParsesLenient(s) == CountChar(s, ".", 1) <= 1

(* float(s) accepts a text of digits and points iff it has at most one    *)
(* point and at least one digit; otherwise it raises ValueError           *)
FloatParses(s) ==
    /\ CountChar(s, ".", 1) <= 1
    /\ Len(s) - CountChar(s, ".", 1) >= 1

(* mantissa of all digits read left to right, and the number of digits    *)
(* that follow the point                                                   *)
RECURSIVE FloatScan(_, _, _, _, _)
FloatScan(s, i, m, e, seen) ==
    IF i > Len(s) THEN Num(m, e)
    ELSE IF CharAt(s, i) = "." THEN FloatScan(s, i + 1, m, e, TRUE)
    ELSE FloatScan(s, i + 1, 10 * m + DigitVal(CharAt(s, i)),
                   IF seen THEN e + 1 ELSE e, seen)

Float(s) == FloatScan(s, 1, 0, 0, FALSE)

(* lambda x: float(re.sub(r"[^\d.]", "", str(x))) *)
AgeText(x) == StripNonNumeric(StrOf(x))

AgeOf(x) == Float(AgeText(x))

-----------------------------------------------------------------------------
(* Tables *)

HasColumn(t, c) == c \in Range(t.cols)

NRows(t) == Len(t.rows)

(* df[c] *)
Column(t, c) == [i \in 1..NRows(t) |-> t.rows[i][c]]

(* df.drop(columns=remove, errors="ignore", inplace=True) *)
DropColumns(t, remove) ==
    LET Keep(c) == c \notin remove
        kept == SelectSeq(t.cols, Keep)
    IN [cols |-> kept,
        rows |-> [i \in 1..NRows(t) |-> [c \in Range(kept) |-> t.rows[i][c]]]]

(* mutant: the assignment always appends a new column *)
SetColumnAppend(t, c, series) ==
    [cols |-> Append(t.cols, c),
     rows |-> [i \in 1..NRows(t) |->
                 [k \in Range(t.cols) \cup {c} |->
                     IF k = c THEN series[i] ELSE t.rows[i][k]]]]

(* df[c] = series: overwrite in place when the label exists, else append *)
SetColumn(t, c, series) ==
    LET cols2 == IF HasColumn(t, c) THEN t.cols ELSE Append(t.cols, c)
    IN [cols |-> cols2,
        rows |-> [i \in 1..NRows(t) |->
                    [k \in Range(cols2) |->
                        IF k = c THEN series[i] ELSE t.rows[i][k]]]]

(* mutant: no copy is made, the caller's table is modified in place *)
CopyAlias(h, r) == [heap |-> h, ref |-> r]

(* df.copy(): a new object with the same contents *)
Copy(h, r) == [heap |-> Append(h, h[r]), ref |-> Len(h) + 1]

(* mutant: every value other than 1 is mapped to "<65" *)
AgeGroupElse(v) ==
    IF v.t = "num" /\ v.m = 1 /\ v.e = 0 THEN Str("+65") ELSE Str("<65")

(* Series.map({1: "+65", 0: "<65"}): keys compare by numeric value *)
AgeGroupMap(v) ==
    IF v.t = "num" /\ v.m = 1 /\ v.e = 0 THEN Str("+65")
    ELSE IF v.t = "num" /\ v.m = 0 /\ v.e = 0 THEN Str("<65")
    ELSE NaN

Store(h, r, t) == [h EXCEPT ![r] = t]

(* preprocess_data(df): heap after the call, returned reference (0 when   *)
(* it raises) and the exception raised                                    *)
preprocess_data(h, r) ==
    LET c == Copy(h, r)
        loc == c.ref
        t0 == c.heap[loc]
        remove_cols == Range(SelectSeq(t0.cols, EndsWithAny))
        t1 == DropColumns(t0, remove_cols)
        h1 == Store(c.heap, loc, t1)
    IN IF ~HasColumn(t1, "AGE_ABOVE65")
       THEN [heap |-> h1, ret |-> 0, exc |-> "KeyError"]
       ELSE
         LET t2 == SetColumn(t1, "age_group",
                     [i \in 1..NRows(t1) |->
                        AgeGroupMap(Column(t1, "AGE_ABOVE65")[i])])
             h2 == Store(h1, loc, t2)
         IN IF ~HasColumn(t2, "AGE_PERCENTIL")
            THEN [heap |-> h2, ret |-> 0, exc |-> "KeyError"]
            ELSE IF \E i \in 1..NRows(t2) :
                      ~FloatParses(AgeText(Column(t2, "AGE_PERCENTIL")[i]))
            THEN [heap |-> h2, ret |-> 0, exc |-> "ValueError"]
            ELSE
              LET t3 == SetColumn(t2, "age",
                          [i \in 1..NRows(t2) |->
                             AgeOf(Column(t2, "AGE_PERCENTIL")[i])])
              IN [heap |-> Store(h2, loc, t3), ret |-> loc, exc |-> "none"]

-----------------------------------------------------------------------------
(* Patient-level aggregation *)

(* mutant: the first entry of the group, null or not *)
FirstEntry(series) == IF series = <<>> THEN NaN ELSE Head(series)

(* GroupBy.first(): the first non-null entry of the group's column, NaN   *)
(* when every entry is null                                                *)
RECURSIVE First(_)
First(series) ==
    IF series = <<>> THEN NaN
    ELSE IF ~IsNull(Head(series)) THEN Head(series)
    ELSE First(Tail(series))

(* mutant: the last entry of the group instead of the largest *)
LastEntry(series) ==
    IF series = <<>> THEN NaN ELSE series[Len(series)]

(* GroupBy.max(): the largest non-null entry, NaN when every entry is null *)
RECURSIVE Max(_)
Max(series) ==
    IF series = <<>> THEN NaN
    ELSE LET rest == Max(Tail(series))
         IN IF IsNull(Head(series)) THEN rest
            ELSE IF IsNull(rest) THEN Head(series)
            ELSE IF NumLess(Head(series), rest) THEN rest
            ELSE Head(series)

(* group keys in ascending order (groupby sorts its keys) *)
RECURSIVE SortKeys(_)
SortKeys(S) ==
    IF S = {} THEN <<>>
    ELSE LET mn == CHOOSE x \in S : \A y \in S : ~NumLess(y, x)
         IN <<mn>> \o SortKeys(S \ {mn})

(* mutant: null keys form a group of their own (dropna=False) *)
GroupKeysKeepNull(t, key) == Range(Column(t, key))

(* df.groupby(key): the keys of the groups; rows with a null key belong   *)
(* to no group (dropna=True is the default)                               *)
GroupKeys(t, key) == {v \in Range(Column(t, key)) : ~IsNull(v)}

(* the rows of one group, in the order of the table *)
Group(t, key, k) ==
    LET InGroup(r) == r[key] = k
    IN SelectSeq(t.rows, InGroup)

GroupColumn(t, key, k, c) ==
    LET g == Group(t, key, k)
    IN [i \in 1..Len(g) |-> g[i][c]]

AggColumns == <<"PATIENT_VISIT_IDENTIFIER", "ICU", "age_group", "age">>

(* aggregate_patient_level(df): the table returned, or the exception *)
aggregate_patient_level(t) ==
    IF \E c \in Range(AggColumns) : ~HasColumn(t, c)
    THEN [ret |-> [cols |-> <<>>, rows |-> <<>>], exc |-> "KeyError"]
    ELSE
      LET key == "PATIENT_VISIT_IDENTIFIER"
          keys == SortKeys(GroupKeys(t, key))
      IN [ret |->
            [cols |-> AggColumns,
             rows |-> [j \in 1..Len(keys) |->
                [c \in Range(AggColumns) |->
                   CASE c = key -> keys[j]
                     [] c = "ICU" -> Max(GroupColumn(t, key, keys[j], "ICU"))
                     [] c = "age_group" ->
                          First(GroupColumn(t, key, keys[j], "age_group"))
                     [] c = "age" ->
                          First(GroupColumn(t, key, keys[j], "age"))]]],
          exc |-> "none"]

-----------------------------------------------------------------------------
(* Acquisition *)

(* response.raise_for_status(): raises for 4xx and 5xx *)
RaiseForStatus(status) == status >= 400 /\ status < 600

(* one try of: requests.get; raise_for_status; pd.read_excel.  TRUE when  *)
(* a table is returned, FALSE when any of the three raises                *)
Fetch(resp, verify) ==
    /\ resp.net = "ok"
    /\ (verify => resp.cert_valid)
    /\ ~RaiseForStatus(resp.status)
    /\ resp.xlsx

-----------------------------------------------------------------------------
(* Inputs: the tables the functions are applied to *)

(* column layouts of raw observation tables: the dataset's columns, a     *)
(* table with every reserved suffix, tables lacking a required column,     *)
(* a table that already has age and age_group, and near-miss labels        *)
Layouts ==
    { <<"PATIENT_VISIT_IDENTIFIER", "AGE_ABOVE65", "AGE_PERCENTIL", "ICU">>,
      <<"AGE_ABOVE65", "HR_MIN", "AGE_PERCENTIL", "HR_MAX", "HR_DIFF",
        "HR_MEDIAN", "HR_MEAN", "ICU">>,
      <<"AGE_PERCENTIL", "HR_MIN", "ICU">>,
      <<"AGE_ABOVE65", "HR_MAX", "ICU">>,
      <<"age", "AGE_ABOVE65", "age_group", "AGE_PERCENTIL">>,
      <<"_MAX", "hr_min", "AGE_ABOVE65", "HR_MEDIAN_1", "AGE_PERCENTIL",
        "MIN">> }

(* the AGE_ABOVE65 and AGE_PERCENTIL cells of a row: the dataset's 0/1     *)
(* flags and band labels, other and missing flags, a label with a decimal  *)
(* point, a label with two points and a missing label                      *)
AgeInputs ==
    { <<Num(1, 0), Str("60th-70th")>>, <<Num(0, 0), Str("Above 90th")>>,
      <<Num(2, 0), Str("10.5th")>>, <<NaN, Str("60th-70th")>>,
      <<Str("1"), Str("10.5th")>>, <<Num(1, 0), Str("v1.2.3")>>,
      <<Num(0, 0), NaN>> }

(* the cell of a column the transformation only carries along *)
OtherCell(c) ==
    CASE c = "age" -> Num(33, 0)
      [] c = "age_group" -> Str("old")
      [] OTHER -> Num(Len(c), 1)

RawRow(cols, a, p) ==
    [c \in Range(cols) |->
        CASE c = "AGE_ABOVE65" -> a
          [] c = "AGE_PERCENTIL" -> p
          [] OTHER -> OtherCell(c)]

RawRows(cols) ==
    {RawRow(cols, ap[1], ap[2]) : ap \in AgeInputs}

RawTablesOf(cols) ==
    { [cols |-> cols, rows |-> rs] :
        rs \in UNION { [1..n -> RawRows(cols)] : n \in 0..MaxRows } }

RawTables == UNION { RawTablesOf(cols) : cols \in Layouts }

(* cleaned tables handed to the aggregation *)
CleanColumns ==
    <<"PATIENT_VISIT_IDENTIFIER", "ICU", "AGE_ABOVE65", "age_group", "age">>

PatientCells == {Num(1, 0), Num(2, 0), NaN}

IcuCells == {Num(0, 0), Num(1, 0)}

AgeCells ==
    { <<Str("+65"), Num(6070, 0)>>, <<Str("<65"), NaN>>,
      <<NaN, Num(1020, 0)>> }

CleanRow(id, icu, ag) ==
    [c \in Range(CleanColumns) |->
        CASE c = "PATIENT_VISIT_IDENTIFIER" -> id
          [] c = "ICU" -> icu
          [] c = "AGE_ABOVE65" -> Num(1, 0)
          [] c = "age_group" -> ag[1]
          [] c = "age" -> ag[2]]

CleanRows ==
    {CleanRow(id, icu, ag) :
        id \in PatientCells, icu \in IcuCells, ag \in AgeCells}

CleanTables ==
    { [cols |-> CleanColumns, rows |-> rs] :
        rs \in UNION { [1..n -> CleanRows] : n \in 0..MaxPatientRows } }

(* what the server may answer to one request *)
Statuses == {200, 404, 500}

Responses ==
    [net : {"ok", "error"}, cert_valid : BOOLEAN, status : Statuses,
     xlsx : BOOLEAN,
     body : RawTablesOf(<<"PATIENT_VISIT_IDENTIFIER", "AGE_ABOVE65",
                          "AGE_PERCENTIL", "ICU">>)]

NoTable == [cols |-> <<>>, rows |-> <<>>]

-----------------------------------------------------------------------------
(* load_data(url) *)

Init ==
    /\ pc = "start"
    /\ attempts = <<>>
    /\ warnings_disabled = FALSE
    /\ heap = <<>>
    /\ df = 0
    /\ exc = "none"
    /\ calls = 0
    /\ arg = 0
    /\ snap = NoTable
    /\ patient_df = NoTable

(* try: requests.get(url, timeout=30); raise_for_status; read_excel *)
FirstAttempt ==
    /\ pc = "start"
    /\ \E resp \in Responses :
         LET ok == Fetch(resp, TRUE)
         IN /\ attempts' = Append(attempts,
                   [verify |-> TRUE, warnings_disabled |-> warnings_disabled,
                    ok |-> ok])
            /\ IF ok
               THEN /\ heap' = Append(heap, resp.body)
                    /\ df' = Len(heap) + 1
                    /\ pc' = "returned"
               ELSE /\ pc' = "except"
                    /\ UNCHANGED <<heap, df>>
    /\ UNCHANGED <<warnings_disabled, exc, calls, arg, snap, patient_df>>

(* mutant: the retry still verifies the certificate *)
RetryAttemptVerified ==
    /\ pc = "except"
    /\ warnings_disabled' = TRUE
    /\ \E resp \in Responses :
         LET ok == Fetch(resp, TRUE)
         IN /\ attempts' = Append(attempts,
                   [verify |-> TRUE, warnings_disabled |-> warnings_disabled',
                    ok |-> ok])
            /\ IF ok
               THEN /\ heap' = Append(heap, resp.body)
                    /\ df' = Len(heap) + 1
                    /\ pc' = "returned"
                    /\ exc' = exc
               ELSE /\ pc' = "raised"
                    /\ exc' = "Exception"
                    /\ UNCHANGED <<heap, df>>
    /\ UNCHANGED <<calls, arg, snap, patient_df>>

(* except Exception: disable_warnings; requests.get(url, verify=False,    *)
(* timeout=30); raise_for_status; read_excel                               *)
RetryAttempt ==
    /\ pc = "except"
    /\ warnings_disabled' = TRUE
    /\ \E resp \in Responses :
         LET ok == Fetch(resp, FALSE)
         IN /\ attempts' = Append(attempts,
                   [verify |-> FALSE, warnings_disabled |-> warnings_disabled',
                    ok |-> ok])
            /\ IF ok
               THEN /\ heap' = Append(heap, resp.body)
                    /\ df' = Len(heap) + 1
                    /\ pc' = "returned"
                    /\ exc' = exc
               ELSE /\ pc' = "raised"
                    /\ exc' = "Exception"
                    /\ UNCHANGED <<heap, df>>
    /\ UNCHANGED <<calls, arg, snap, patient_df>>

Next == FirstAttempt \/ RetryAttempt

Spec == Init /\ [][Next]_vars

-----------------------------------------------------------------------------
(* preprocess_data(df), applied to a raw table and then to its own output *)

InitPre ==
    /\ pc = "loaded"
    /\ attempts = <<>>
    /\ warnings_disabled = FALSE
    /\ \E t \in RawTables : heap = <<t>>
    /\ df = 1
    /\ exc = "none"
    /\ calls = 0
    /\ arg = 0
    /\ snap = NoTable
    /\ patient_df = NoTable

(* df = preprocess_data(df) *)
Preprocess ==
    /\ pc \in {"loaded", "cleaned"}
    /\ calls < MaxCalls
    /\ LET r == preprocess_data(heap, df)
       IN /\ heap' = r.heap
          /\ exc' = r.exc
          /\ arg' = df
          /\ snap' = heap[df]
          /\ calls' = calls + 1
          /\ IF r.exc = "none"
             THEN df' = r.ret /\ pc' = "cleaned"
             ELSE df' = df /\ pc' = "raised"
    /\ UNCHANGED <<attempts, warnings_disabled, patient_df>>

NextPre == Preprocess

SpecPre == InitPre /\ [][NextPre]_vars

-----------------------------------------------------------------------------
(* aggregate_patient_level(df), applied to a cleaned table *)

InitAgg ==
    /\ pc = "cleaned"
    /\ attempts = <<>>
    /\ warnings_disabled = FALSE
    /\ \E t \in CleanTables : heap = <<t>>
    /\ df = 1
    /\ exc = "none"
    /\ calls = 0
    /\ arg = 0
    /\ snap = NoTable
    /\ patient_df = NoTable

(* patient_df = aggregate_patient_level(df) *)
Aggregate ==
    /\ pc = "cleaned"
    /\ LET r == aggregate_patient_level(heap[df])
       IN /\ patient_df' = r.ret
          /\ exc' = r.exc
          /\ pc' = IF r.exc = "none" THEN "aggregated" ELSE "raised"
    /\ arg' = df
    /\ snap' = heap[df]
    /\ UNCHANGED <<attempts, warnings_disabled, heap, df, calls>>

NextAgg == Aggregate

SpecAgg == InitAgg /\ [][NextAgg]_vars

-----------------------------------------------------------------------------
(* Properties of load_data, checked under Spec *)

-----------------------------------------------------------------------------
(* Properties of preprocess_data, checked under SpecPre.  After a call,   *)
(* snap is the table that was passed in and, when the call returned,       *)
(* heap[df] is the table it returned.                                      *)

Returned == calls >= 1 /\ exc = "none"

(* C4: the output has no column ending in _DIFF, _MIN, _MAX or _MEDIAN,   *)
(* and every input column without such an ending is still present.         *)
C4_SuffixColumnsRemoved ==
    Returned =>
      /\ \A c \in Range(heap[df].cols) :
            \A p \in {"_DIFF", "_MIN", "_MAX", "_MEDIAN"} : ~EndsWith(c, p)
      /\ \A c \in Range(snap.cols) :
            (\A p \in {"_DIFF", "_MIN", "_MAX", "_MEDIAN"} : ~EndsWith(c, p))
               => c \in Range(heap[df].cols)

C4_Witness ==
    /\ Returned
    /\ {"HR_MIN", "HR_MAX", "HR_DIFF", "HR_MEDIAN", "HR_MEAN"}
          \subseteq Range(snap.cols)
    /\ "HR_MEAN" \in Range(heap[df].cols)
    /\ NRows(snap) > 0

(* C5: in every output row age_group is "+65" when AGE_ABOVE65 is 1,      *)
(* "<65" when it is 0 and missing for any other value.                     *)
C5_AgeGroup ==
    Returned =>
      \A i \in 1..NRows(heap[df]) :
         LET a == heap[df].rows[i]["AGE_ABOVE65"]
             g == heap[df].rows[i]["age_group"]
         IN /\ a = Num(1, 0) => g = Str("+65")
            /\ a = Num(0, 0) => g = Str("<65")
            /\ a \notin {Num(1, 0), Num(0, 0)} => g = NaN

C5_Witness ==
    /\ Returned
    /\ NRows(heap[df]) = 2
    /\ heap[df].rows[1]["AGE_ABOVE65"] = Num(1, 0)
    /\ heap[df].rows[1]["age_group"] = Str("+65")
    /\ heap[df].rows[2]["AGE_ABOVE65"] = Num(2, 0)
    /\ heap[df].rows[2]["age_group"] = NaN

(* C6: in every output row age is the number read from the digits and    *)
(* points of AGE_PERCENTIL, in their order; "60th-70th" gives 6070.        *)
C6_AgeFromPercentil ==
    Returned =>
      \A i \in 1..NRows(heap[df]) :
         LET x == heap[df].rows[i]["AGE_PERCENTIL"]
             age == heap[df].rows[i]["age"]
         IN /\ age = Float(StripNonNumeric(StrOf(x)))
            /\ x = Str("60th-70th") => age = Num(6070, 0)
            /\ x = Str("Above 90th") => age = Num(90, 0)
            /\ x = Str("10.5th") => age = Num(105, 1)

C6_Witness ==
    /\ Returned
    /\ \E i \in 1..NRows(heap[df]) :
          /\ heap[df].rows[i]["AGE_PERCENTIL"] = Str("60th-70th")
          /\ heap[df].rows[i]["age"] = Num(6070, 0)

(* the stripped text of a cell has no digit, or more than one point *)
C7_Unparseable(x) ==
    LET s == StripNonNumeric(StrOf(x))
    IN \/ \A j \in 1..Len(s) : CharAt(s, j) \notin Digits
       \/ Cardinality({j \in 1..Len(s) : CharAt(s, j) = "."}) > 1

C7_MustFail(t) ==
    IF "AGE_ABOVE65" \notin Range(t.cols) THEN TRUE
    ELSE IF "AGE_PERCENTIL" \notin Range(t.cols) THEN TRUE
    ELSE \E i \in 1..Len(t.rows) : C7_Unparseable(t.rows[i]["AGE_PERCENTIL"])

C8_Original ==
    calls >= 1 =>
      /\ heap[arg] = snap
      /\ exc = "none" =>
           /\ NRows(heap[df]) = NRows(snap)
           /\ \A c \in Range(snap.cols) \cap Range(heap[df].cols) :
                 \A i \in 1..NRows(snap) :
                    heap[df].rows[i][c] = snap.rows[i][c]

(* C8 amended: the table passed in is unchanged, the output has the same  *)
(* rows in the same order and every retained original column other than    *)
(* age and age_group holds its original values.                            *)
C8_Pure ==
    calls >= 1 =>
      /\ heap[arg] = snap
      /\ exc = "none" =>
           /\ NRows(heap[df]) = NRows(snap)
           /\ \A c \in (Range(snap.cols) \cap Range(heap[df].cols))
                          \ {"age", "age_group"} :
                 \A i \in 1..NRows(snap) :
                    heap[df].rows[i][c] = snap.rows[i][c]

C8_Witness ==
    /\ Returned
    /\ calls = 1
    /\ NRows(snap) = 2
    /\ "age" \in Range(snap.cols)
    /\ snap.rows[1]["age"] # heap[df].rows[1]["age"]
    /\ heap[arg] = snap

(* C9: applying preprocess_data to a table it returned raises nothing and *)
(* returns an equal table, with one age and one age_group column.          *)
C9_Idempotent ==
    calls >= 2 =>
      /\ exc = "none"
      /\ heap[df] = snap
      /\ Cardinality({i \in DOMAIN heap[df].cols :
                         heap[df].cols[i] = "age"}) = 1
      /\ Cardinality({i \in DOMAIN heap[df].cols :
                         heap[df].cols[i] = "age_group"}) = 1

C9_Witness ==
    /\ calls = 2
    /\ exc = "none"
    /\ NRows(heap[df]) = 2
    /\ df # arg
    /\ heap[df] = heap[arg]

-----------------------------------------------------------------------------
(* Properties of aggregate_patient_level, checked under SpecAgg.  After   *)
(* the call, snap is the cleaned table and patient_df the table returned.  *)

PatientKey == "PATIENT_VISIT_IDENTIFIER"

(* the input rows of patient k, by position *)
RowsOf(k) == {i \in 1..NRows(snap) : snap.rows[i][PatientKey] = k}

Patients == {snap.rows[i][PatientKey] : i \in 1..NRows(snap)} \ {NaN}

(* C2: the output has one row per distinct patient identifier of the      *)
(* input, and no identifier is in two output rows.                         *)
C2_OneRowPerPatient ==
    pc = "aggregated" =>
      /\ NRows(patient_df) = Cardinality(Patients)
      /\ {patient_df.rows[j][PatientKey] : j \in 1..NRows(patient_df)}
            = Patients
      /\ \A i, j \in 1..NRows(patient_df) :
            patient_df.rows[i][PatientKey] = patient_df.rows[j][PatientKey]
               => i = j

C2_Witness ==
    /\ pc = "aggregated"
    /\ NRows(snap) = 3
    /\ Cardinality(Patients) = 2
    /\ NRows(patient_df) = 2

(* C3: with ICU values 0 or 1, a patient's output ICU is 1 iff one of the *)
(* patient's input rows has ICU = 1, else 0; A with ICU 0 then 1 and B     *)
(* with ICU 0 give exactly the two rows A -> 1 and B -> 0.                 *)
C3_EverInIcu ==
    (/\ pc = "aggregated"
     /\ \A i \in 1..NRows(snap) : snap.rows[i]["ICU"] \in {Num(0, 0), Num(1, 0)})
    =>
      /\ \A k \in Patients :
            \E j \in 1..NRows(patient_df) :
               patient_df.rows[j][PatientKey] = k
      /\ \A j \in 1..NRows(patient_df) :
            LET k == patient_df.rows[j][PatientKey]
            IN patient_df.rows[j]["ICU"] =
                 IF \E i \in RowsOf(k) : snap.rows[i]["ICU"] = Num(1, 0)
                 THEN Num(1, 0) ELSE Num(0, 0)
      /\ (/\ Column(snap, PatientKey) = <<Num(1, 0), Num(1, 0), Num(2, 0)>>
          /\ Column(snap, "ICU") = <<Num(0, 0), Num(1, 0), Num(0, 0)>>)
         => /\ Column(patient_df, PatientKey) = <<Num(1, 0), Num(2, 0)>>
            /\ Column(patient_df, "ICU") = <<Num(1, 0), Num(0, 0)>>

C3_Witness ==
    /\ pc = "aggregated"
    /\ Column(snap, PatientKey) = <<Num(1, 0), Num(1, 0), Num(2, 0)>>
    /\ Column(snap, "ICU") = <<Num(0, 0), Num(1, 0), Num(0, 0)>>
    /\ Column(patient_df, "ICU") = <<Num(1, 0), Num(0, 0)>>

(* the position of the first input row of patient k *)
C10_FirstRow(k) == CHOOSE i \in RowsOf(k) : \A i2 \in RowsOf(k) : i <= i2

(* C10 as stated: a patient's output age_group and age are those of the   *)
(* patient's first input row, also when they are missing there.            *)
C10_Original ==
    pc = "aggregated" =>
      \A j \in 1..NRows(patient_df) :
         LET k == patient_df.rows[j][PatientKey]
         IN \A c \in {"age_group", "age"} :
               patient_df.rows[j][c] = snap.rows[C10_FirstRow(k)][c]

(* C10 amended: a patient's output age_group (age) is the first value     *)
(* that is not missing among the patient's input rows, in input order,     *)
(* and is missing only when it is missing in all of them.                  *)
C10_FirstNonMissing ==
    pc = "aggregated" =>
      \A j \in 1..NRows(patient_df) :
         LET k == patient_df.rows[j][PatientKey]
         IN \A c \in {"age_group", "age"} :
               LET present == {i \in RowsOf(k) : snap.rows[i][c] # NaN}
               IN IF present = {} THEN patient_df.rows[j][c] = NaN
                  ELSE \E i \in present :
                         /\ \A i2 \in present : i <= i2
                         /\ patient_df.rows[j][c] = snap.rows[i][c]

C10_Witness ==
    /\ pc = "aggregated"
    /\ NRows(snap) = 2
    /\ Column(snap, PatientKey) = <<Num(1, 0), Num(1, 0)>>
    /\ Column(snap, "age_group") = <<NaN, Str("+65")>>
    /\ Column(patient_df, "age_group") = <<Str("+65")>>
    /\ Column(patient_df, "age") = <<Num(1020, 0)>>

====
